---- MODULE Spec2Model ----
(***************************************************************************)
(* State-machine model of the MOV video editor (src/src/main.rs).          *)
(*                                                                         *)
(* The application state is the VideoEditorApp struct.  Every step of the  *)
(* model is one call of eframe::App::update: the playback advance at the   *)
(* top of update, followed by the handler of at most one user input        *)
(* (a button, a click on the video track, a picked or dropped file).       *)
(*                                                                         *)
(* Time is counted in whole seconds: Duration values and the f32 timeline  *)
(* coordinates are integers, for which Duration::as_secs_f32 and           *)
(* Duration::from_secs_f32 are exact.  An Instant can only be compared     *)
(* with another Instant, so last_frame_time is kept as its age: the time   *)
(* from it to the clock reading of the last update.                        *)
(*                                                                         *)
(* main.rs uses neither decoder module.  The decoder backends              *)
(* (src/src/ffmpeg_decoder.rs, src/src/macos_video.rs) are modelled as one *)
(* open session whose public methods are called in any order (DecoderSpec),*)
(* and the pixel conversion of macos_video.rs as a function applied to     *)
(* every frame of a bounded set (ConvertSpec).                             *)
(***************************************************************************)
EXTENDS Integers, Sequences, FiniteSets, TLC

\* ------------------------------------------------------------------ bounds
MaxClipId == 3       \* no clip is created once next_clip_id reaches this
MaxPlayhead == 3     \* playback is not followed beyond this playhead position
MaxDelta == 1        \* longest time between two updates, and the longest
                     \* time out of playback that is counted
MaxPackets == 3      \* most packets in a container a decoder opens
MaxLen == 8          \* most bytes in a frame given to the pixel conversion
MaxByte == 1         \* largest byte value in such a frame

\* --------------------------------------------------------------- constants
BytesPerSecond == 1000000

\* ------------------------------------------------------------------ Option
None == <<>>
Some(x) == <<x>>
IsSome(o) == Len(o) = 1
Unwrap(o) == o[1]

\* -------------------------------------------------------------- file system
\* The files the user can pick or drop: path |-> metadata.len(), in bytes.
\* A path outside the domain cannot be opened.
FileLen ==
    [p \in {"a.mov", "s.MOV"} |->
        CASE p = "a.mov" -> 3500000
          [] p = "s.MOV" -> 999999]

Paths == {"a.mov", "s.MOV", "gone.mov", "notes.txt"}

\* path.extension()
Extension(p) ==
    CASE p \in {"a.mov", "gone.mov"} -> "mov"
      [] p = "s.MOV" -> "MOV"
      [] OTHER -> "txt"

\* str::to_lowercase
ToLowercase(str) == IF str = "MOV" THEN "mov" ELSE str

\* The longest source, in seconds, and the right-most time on the video track
\* a click can land on.
MaxDuration == FileLen["a.mov"] \div BytesPerSecond
MaxTimePos == MaxDuration + 1

VARIABLES
    loaded_video,       \* Option<Arc<VideoInfo>>
    clips,              \* Vec<Clip>
    selected_clip,      \* Option<usize>
    playhead_position,  \* f32, seconds
    next_clip_id,       \* usize
    is_playing,         \* bool
    last_frame_age,     \* last_frame_time: Instant, as the time elapsed since it
    call,               \* history: the last handler or method that ran
    decoder,            \* Option<FFmpegDecoder | MacOSVideoDecoder>: the open session
    returned,           \* history: what the last decoder method returned
    frame,              \* Option<VideoFrame>: the argument of convert_frame_to_rgba
    rgba_data           \* Option<Vec<u8>>: what convert_frame_to_rgba returned

appVars == <<loaded_video, clips, selected_clip, playhead_position, next_clip_id,
             is_playing, last_frame_age>>
decoderVars == <<decoder, returned>>
frameVars == <<frame, rgba_data>>

vars == <<loaded_video, clips, selected_clip, playhead_position, next_clip_id,
          is_playing, last_frame_age, call, decoder, returned, frame, rgba_data>>

\* The VideoEditorApp value (self) the methods below take and return.
App ==
    [loaded_video |-> loaded_video, clips |-> clips, selected_clip |-> selected_clip,
     playhead_position |-> playhead_position, next_clip_id |-> next_clip_id,
     is_playing |-> is_playing, last_frame_age |-> last_frame_age]

SetApp(self) ==
    /\ loaded_video' = self.loaded_video
    /\ clips' = self.clips
    /\ selected_clip' = self.selected_clip
    /\ playhead_position' = self.playhead_position
    /\ next_clip_id' = self.next_clip_id
    /\ is_playing' = self.is_playing
    /\ last_frame_age' = self.last_frame_age
    /\ UNCHANGED <<decoderVars, frameVars>>   \* main.rs uses neither module

\* ------------------------------------------------------------- the methods
parse_mov_file(path) ==
    IF path \in DOMAIN FileLen
    THEN Some([path |-> path,
               duration |-> FileLen[path] \div BytesPerSecond,
               width |-> 1920, height |-> 1080, fps |-> 30, has_audio |-> TRUE])
    ELSE None

\* Variant of load_video whose failed load forgets the source loaded before.
load_video_forgets_source(self, path) ==
    LET video_info == parse_mov_file(path) IN
    IF IsSome(video_info)
    THEN LET video == Unwrap(video_info)
             clip == [source_video |-> video,
                      start_time |-> 0,
                      end_time |-> video.duration,
                      id |-> self.next_clip_id,
                      position |-> 0]
         IN [self EXCEPT !.loaded_video = Some(video),
                         !.next_clip_id = self.next_clip_id + 1,
                         !.clips = Append(self.clips, clip)]
    ELSE [self EXCEPT !.loaded_video = None]

\* Variant of load_video that numbers the new clip by the length of the list.
load_video_id_by_count(self, path) ==
    LET video_info == parse_mov_file(path) IN
    IF IsSome(video_info)
    THEN LET video == Unwrap(video_info)
             clip == [source_video |-> video,
                      start_time |-> 0,
                      end_time |-> video.duration,
                      id |-> Len(self.clips),
                      position |-> 0]
         IN [self EXCEPT !.loaded_video = Some(video),
                         !.next_clip_id = self.next_clip_id + 1,
                         !.clips = Append(self.clips, clip)]
    ELSE self

load_video(self, path) ==
    LET video_info == parse_mov_file(path) IN
    IF IsSome(video_info)
    THEN LET video == Unwrap(video_info)
             clip == [source_video |-> video,
                      start_time |-> 0,
                      end_time |-> video.duration,
                      id |-> self.next_clip_id,
                      position |-> 0]
         IN [self EXCEPT !.loaded_video = Some(video),
                         !.next_clip_id = self.next_clip_id + 1,
                         !.clips = Append(self.clips, clip)]
    ELSE self

\* Vec::insert(index, x), index counted from 1 here
Insert(s, index, x) == SubSeq(s, 1, index - 1) \o <<x>> \o SubSeq(s, index, Len(s))

\* Iterator::position: the first index whose clip has this id, or None
PositionOfId(cs, clip_id) ==
    LET hits == {i \in 1..Len(cs) : cs[i].id = clip_id} IN
    IF hits = {} THEN None
    ELSE Some(CHOOSE i \in hits : \A j \in hits : i <= j)

\* Variant of Splittable that also accepts the two ends of the clip.
SplittableInclusive(original_clip, split_time) ==
    split_time >= original_clip.start_time /\ split_time <= original_clip.end_time

\* The condition under which split_clip splits.
Splittable(original_clip, split_time) ==
    split_time > original_clip.start_time /\ split_time < original_clip.end_time

\* Variant of NewClip that puts the new clip after the original's old span.
NewClipAfterSpan(original_clip, split_time, id) ==
    [source_video |-> original_clip.source_video,
     start_time |-> split_time,
     end_time |-> original_clip.end_time,
     id |-> id,
     position |-> original_clip.position
                    + (original_clip.end_time - original_clip.start_time)]

\* Variant of NewClip that leaves the new clip at the original's position.
NewClipSamePosition(original_clip, split_time, id) ==
    [source_video |-> original_clip.source_video,
     start_time |-> split_time,
     end_time |-> original_clip.end_time,
     id |-> id,
     position |-> original_clip.position]

\* The clip split_clip creates for the part after split_time.
NewClip(original_clip, split_time, id) ==
    [source_video |-> original_clip.source_video,
     start_time |-> split_time,
     end_time |-> original_clip.end_time,
     id |-> id,
     position |-> original_clip.position + (split_time - original_clip.start_time)]

\* Variant of split_clip that does not advance next_clip_id.
split_clip_keeps_next_id(self, clip_id, split_time) ==
    LET found == PositionOfId(self.clips, clip_id) IN
    IF IsSome(found)
    THEN LET clip_index == Unwrap(found)
             original_clip == self.clips[clip_index]
         IN IF Splittable(original_clip, split_time)
            THEN LET shrunk == [self.clips EXCEPT ![clip_index].end_time = split_time]
                     new_clip == NewClip(original_clip, split_time, self.next_clip_id)
                 IN [self EXCEPT !.clips = Insert(shrunk, clip_index + 1, new_clip)]
            ELSE self
    ELSE self

split_clip(self, clip_id, split_time) ==
    LET found == PositionOfId(self.clips, clip_id) IN
    IF IsSome(found)
    THEN LET clip_index == Unwrap(found)
             original_clip == self.clips[clip_index]
         IN IF Splittable(original_clip, split_time)
            THEN LET shrunk == [self.clips EXCEPT ![clip_index].end_time = split_time]
                     new_clip == NewClip(original_clip, split_time, self.next_clip_id)
                 IN [self EXCEPT !.next_clip_id = self.next_clip_id + 1,
                                 !.clips = Insert(shrunk, clip_index + 1, new_clip)]
            ELSE self
    ELSE self

\* Variant of delete_selected_clip that closes the gap: the clips after the
\* deleted one move left by its length.
delete_selected_clip_ripple(self) ==
    IF IsSome(self.selected_clip)
    THEN LET selected_id == Unwrap(self.selected_clip)
             Keep(c) == c.id # selected_id
             Gone(c) == c.id = selected_id
             gone == SelectSeq(self.clips, Gone)
             shift == IF gone = <<>> THEN 0
                      ELSE gone[1].end_time - gone[1].start_time
             kept == SelectSeq(self.clips, Keep)
         IN [self EXCEPT !.clips = [j \in 1..Len(kept) |->
                                       IF kept[j].position >= shift
                                       THEN [kept[j] EXCEPT !.position = @ - shift]
                                       ELSE kept[j]],
                         !.selected_clip = None]
    ELSE self

\* Variant of delete_selected_clip that leaves the selection as it is.
delete_selected_clip_keeps_selection(self) ==
    IF IsSome(self.selected_clip)
    THEN LET selected_id == Unwrap(self.selected_clip)
             Keep(c) == c.id # selected_id
         IN [self EXCEPT !.clips = SelectSeq(self.clips, Keep)]
    ELSE self

delete_selected_clip(self) ==
    IF IsSome(self.selected_clip)
    THEN LET selected_id == Unwrap(self.selected_clip)
             Keep(c) == c.id # selected_id
         IN [self EXCEPT !.clips = SelectSeq(self.clips, Keep),   \* Vec::retain
                         !.selected_clip = None]
    ELSE self


\* ------------------------------------------------- the parts of update()
\* Playback advance at the top of update, dt after the previous update:
\* Instant::now() is then last_frame_age + dt after last_frame_time.
\* Variant of advance that moves the playhead while not playing too.
advance_always(self, dt) ==
    LET delta == self.last_frame_age + dt
        moved == self.playhead_position + delta
        at_end == /\ IsSome(self.loaded_video)
                  /\ moved >= Unwrap(self.loaded_video).duration
    IN [self EXCEPT !.last_frame_age = 0,
                    !.playhead_position = IF at_end THEN 0 ELSE moved,
                    !.is_playing = IF at_end THEN FALSE ELSE self.is_playing]

advance(self, dt) ==
    IF self.is_playing
    THEN LET delta == self.last_frame_age + dt
             moved == self.playhead_position + delta
             at_end == /\ IsSome(self.loaded_video)
                       /\ moved >= Unwrap(self.loaded_video).duration
         IN [self EXCEPT !.last_frame_age = 0,
                         !.playhead_position = IF at_end THEN 0 ELSE moved,
                         !.is_playing = IF at_end THEN FALSE ELSE TRUE]
    ELSE [self EXCEPT !.last_frame_age = self.last_frame_age + dt]

\* Variant of play_pause_button whose pause rewinds, as stop does.
play_pause_button_rewinds(self) ==
    IF self.is_playing
    THEN [self EXCEPT !.is_playing = FALSE, !.playhead_position = 0]
    ELSE [self EXCEPT !.is_playing = TRUE, !.last_frame_age = 0]

\* Variant of play_pause_button whose play keeps the old last_frame_time.
play_pause_button_keeps_clock(self) ==
    IF self.is_playing
    THEN [self EXCEPT !.is_playing = FALSE]
    ELSE [self EXCEPT !.is_playing = TRUE]

\* The play/pause button: whichever of the two is shown was clicked.
play_pause_button(self) ==
    IF self.is_playing
    THEN [self EXCEPT !.is_playing = FALSE]
    ELSE [self EXCEPT !.is_playing = TRUE, !.last_frame_age = 0]

stop_button(self) ==
    [self EXCEPT !.is_playing = FALSE, !.playhead_position = 0]

\* The split button: split the selected clip at the playhead.
split_button(self) ==
    IF IsSome(self.selected_clip)
    THEN split_clip(self, Unwrap(self.selected_clip), self.playhead_position)
    ELSE self

\* The hit-test's condition: time_pos lies on the clip's span of the track.
Hit(clip, time_pos) ==
    LET clip_start == clip.position
        clip_duration == clip.end_time - clip.start_time
        clip_end == clip_start + clip_duration
    IN time_pos >= clip_start /\ time_pos <= clip_end

\* Variant of hit_test that returns the hit clip with the smallest id.
hit_test_smallest_id(cs, time_pos) ==
    LET hits == {i \in 1..Len(cs) : Hit(cs[i], time_pos)} IN
    IF hits = {} THEN None
    ELSE Some(cs[CHOOSE i \in hits : \A j \in hits : cs[i].id <= cs[j].id])

\* The timeline hit-test: the first clip, in list order, that time_pos hits;
\* None when the loop ends without a break.
hit_test(cs, time_pos) ==
    LET hits == {i \in 1..Len(cs) : Hit(cs[i], time_pos)} IN
    IF hits = {} THEN None
    ELSE Some(cs[CHOOSE i \in hits : \A j \in hits : i <= j])

\* The source time under time_pos on a clip's span.
source_time(clip, time_pos) == clip.start_time + (time_pos - clip.position)

\* A click on the video track at time_pos, with or without Shift.
timeline_click(self, time_pos, shift) ==
    LET hit == hit_test(self.clips, time_pos) IN
    IF IsSome(hit)
    THEN LET clip == Unwrap(hit) IN
         IF shift
         THEN split_clip(self, clip.id, source_time(clip, time_pos))
         ELSE [self EXCEPT !.selected_clip = Some(clip.id)]
    ELSE self

\* Dropped files: the first one with a .mov extension is loaded.
RECURSIVE dropped_files(_, _)
dropped_files(self, files) ==
    IF files = <<>> THEN self
    ELSE IF ToLowercase(Extension(Head(files))) = "mov"
         THEN load_video(self, Head(files))
         ELSE dropped_files(self, Tail(files))

\* ------------------------------------------------------------------ history
\* call names the handler that ran in the last update and tells whether it
\* changed the application (pre: self when the handler started, after the
\* playback advance of the same update; post: self when it returned).
Called(name, pre, post) == [name |-> name, acted |-> pre # post]

Init ==
    /\ loaded_video = None
    /\ clips = <<>>
    /\ selected_clip = None
    /\ playhead_position = 0
    /\ next_clip_id = 0
    /\ is_playing = FALSE
    /\ last_frame_age = 0
    /\ call = [name |-> "new", acted |-> FALSE]
    /\ decoder = None
    /\ returned = None
    /\ frame = None
    /\ rgba_data = None

\* The time that can pass between two updates.
Deltas == 0..MaxDelta

\* The states the model follows.
Bounded(self) ==
    /\ self.next_clip_id <= MaxClipId
    /\ self.playhead_position <= MaxPlayhead
    /\ self.last_frame_age <= MaxDelta

\* ----------------------------------------------------------------- actions
\* Each action is one update: the playback advance, dt after the previous
\* update, then the handler of the input, if any.
Repaint ==
    \E dt \in Deltas :
        \E new \in {advance(App, dt)} :
        /\ Bounded(new)
        /\ SetApp(new)
        /\ call' = Called("advance", App, new)

OpenVideo ==
    \E dt \in Deltas, path \in Paths :
        \E s \in {advance(App, dt)} : \E new \in {load_video(s, path)} :
           /\ Extension(path) \in {"mov", "MOV"}
           /\ Bounded(new)
           /\ SetApp(new)
           /\ call' = Called("load_video", s, new)

\* What the user may drop on the window in one go.
Drops == {<<"notes.txt", "s.MOV", "a.mov">>, <<"gone.mov", "a.mov">>, <<"notes.txt">>}

DropFiles ==
    \E dt \in Deltas, files \in Drops :
        \E s \in {advance(App, dt)} : \E new \in {dropped_files(s, files)} :
           /\ Bounded(new)
           /\ SetApp(new)
           /\ call' = Called("dropped_files", s, new)

PlayPause ==
    \E dt \in Deltas :
        \E s \in {advance(App, dt)} : \E new \in {play_pause_button(s)} :
           /\ Bounded(new)
           /\ SetApp(new)
           /\ call' = Called(IF s.is_playing THEN "pause" ELSE "play", s, new)

Stop ==
    \E dt \in Deltas :
        \E s \in {advance(App, dt)} : \E new \in {stop_button(s)} :
           /\ Bounded(new)
           /\ SetApp(new)
           /\ call' = Called("stop", s, new)

SplitAtPlayhead ==
    \E dt \in Deltas :
        \E s \in {advance(App, dt)} : \E new \in {split_button(s)} :
           /\ Bounded(new)
           /\ SetApp(new)
           /\ call' = Called("split_button", s, new)

DeleteClip ==
    \E dt \in Deltas :
        \E s \in {advance(App, dt)} : \E new \in {delete_selected_clip(s)} :
           /\ Bounded(new)
           /\ SetApp(new)
           /\ call' = Called("delete_selected_clip", s, new)

TimelineClick ==
    \E dt \in Deltas, time_pos \in 0..MaxTimePos, shift \in BOOLEAN :
        \E s \in {advance(App, dt)} : \E new \in {timeline_click(s, time_pos, shift)} :
           /\ Bounded(new)
           /\ SetApp(new)
           /\ call' = Called(IF shift THEN "shift_click" ELSE "click", s, new)

Next ==
    \/ Repaint
    \/ OpenVideo
    \/ DropFiles
    \/ PlayPause
    \/ Stop
    \/ SplitAtPlayhead
    \/ DeleteClip
    \/ TimelineClick

Spec == Init /\ [][Next]_vars

TypeOK ==
    /\ Len(loaded_video) <= 1
    /\ Len(selected_clip) <= 1
    /\ next_clip_id \in 0..MaxClipId
    /\ playhead_position \in 0..MaxPlayhead
    /\ is_playing \in BOOLEAN
    /\ last_frame_age \in 0..MaxDelta


\* =================================================== the decoder backends
\* A container as a decoder sees it.  video: it has a video stream the
\* decoder and scaler can be built for.  audio: it has no audio stream
\* ("none"), one no audio decoder can be built for ("undecodable"), or a
\* decodable one ("ok").  packets, in file order: "V" is a video packet that
\* decodes and scales to one frame, "X" a video packet that gives no frame
\* (send_packet, receive_frame or the scaler fails), "A" a packet of another
\* stream.  The timestamp of a packet is its place in the file.
PacketSeqs == UNION {[1..n -> {"V", "X", "A"}] : n \in 0..MaxPackets}

Media ==
    {m \in [video : BOOLEAN, audio : {"none", "undecodable", "ok"}, packets : PacketSeqs] :
        m.audio = "none" => \A i \in 1..Len(m.packets) : m.packets[i] # "A"}

\* The times a caller may seek to.
SeekTimes == 0..MaxPackets

\* The VideoFrame decoded from the packet or sample with this timestamp.
VideoFrame(timestamp) == [timestamp |-> timestamp]

\* ------------------------------------------------------------ rodio::Sink
\* paused: the sink's pause flag; queued: the sources appended and not yet
\* played to the end.  The sink produces sound when it is not paused and
\* has a source queued.
Sink_try_new == [paused |-> FALSE, queued |-> 0]
Sink_play(sink) == [sink EXCEPT !.paused = FALSE]
Sink_pause(sink) == [sink EXCEPT !.paused = TRUE]
Sink_stop(sink) == [sink EXCEPT !.queued = 0]
Sink_is_paused(sink) == sink.paused

\* ---------------------------------------------------------- FFmpegDecoder
\* Variant of FFmpegDecoder_new that binds a sink whenever there is an
\* output device, whatever the audio of the container.
FFmpegDecoder_new_always_sink(media, device) ==
    IF media.video
    THEN Some([backend |-> "ffmpeg",
               packets |-> media.packets,
               cursor |-> 0,
               audio_stream_index |-> IF media.audio = "none" THEN None ELSE Some(1),
               audio_decoder |-> media.audio = "ok",
               current_frame |-> None,
               audio_sink |-> IF device THEN Some(Sink_try_new) ELSE None])
    ELSE None

\* FFmpegDecoder::new(path): Ok(decoder) as Some, Err as None.  device: the
\* default output stream and a sink on it can be created.  cursor is the
\* number of packets the input context has handed out.
FFmpegDecoder_new(media, device) ==
    IF media.video
    THEN Some([backend |-> "ffmpeg",
               packets |-> media.packets,
               cursor |-> 0,
               audio_stream_index |-> IF media.audio = "none" THEN None ELSE Some(1),
               audio_decoder |-> media.audio = "ok",
               current_frame |-> None,
               audio_sink |-> IF media.audio = "ok" /\ device
                              THEN Some(Sink_try_new) ELSE None])
    ELSE None

get_video_info(self) == [has_audio |-> IsSome(self.audio_stream_index)]

\* seek_to_time(time): ok tells whether input.seek succeeds.  A successful
\* seek leaves the input before the last video frame at or before time (the
\* start of the file when there is none).  Returns the decoder and Ok or Err.
seek_to_time(self, time, ok) ==
    IF ok
    THEN LET before == {j \in 1..Len(self.packets) : self.packets[j] = "V" /\ j <= time}
             target == IF before = {} THEN 1
                       ELSE CHOOSE j \in before : \A k \in before : k <= j
         IN [self |-> [self EXCEPT !.cursor = target - 1], ret |-> "Ok"]
    ELSE [self |-> self, ret |-> "Err"]

\* read_frame(): packets are taken from the input until one gives a frame,
\* which becomes current_frame, or the input ends; the value returned is
\* current_frame.clone() either way.
read_frame(self) ==
    LET ahead == {j \in (self.cursor + 1)..Len(self.packets) : self.packets[j] = "V"} IN
    IF ahead = {}
    THEN [self |-> [self EXCEPT !.cursor = Len(self.packets)],
          ret |-> self.current_frame]
    ELSE LET j == CHOOSE j \in ahead : \A k \in ahead : j <= k
             video_frame == VideoFrame(j)
         IN [self |-> [self EXCEPT !.cursor = j, !.current_frame = Some(video_frame)],
             ret |-> Some(video_frame)]

get_current_frame(self) == self.current_frame

play_audio(self) ==
    IF IsSome(self.audio_sink)
    THEN [self EXCEPT !.audio_sink = Some(Sink_play(Unwrap(self.audio_sink)))]
    ELSE self

pause_audio(self) ==
    IF IsSome(self.audio_sink)
    THEN [self EXCEPT !.audio_sink = Some(Sink_pause(Unwrap(self.audio_sink)))]
    ELSE self

stop_audio(self) ==
    IF IsSome(self.audio_sink)
    THEN [self EXCEPT !.audio_sink = Some(Sink_stop(Unwrap(self.audio_sink)))]
    ELSE self

is_audio_playing(self) ==
    IF IsSome(self.audio_sink)
    THEN ~Sink_is_paused(Unwrap(self.audio_sink))
    ELSE FALSE

\* ------------------------------------------------------ MacOSVideoDecoder
\* The samples the track output hands out: one per video packet, with an
\* image buffer ("V") or without one ("X").
VideoSamples(packets) ==
    LET OfVideo(i) == packets[i] # "A"
        RECURSIVE From(_)
        From(i) == IF i > Len(packets) THEN <<>>
                   ELSE IF OfVideo(i)
                        THEN <<[timestamp |-> i, image |-> packets[i] = "V"]>> \o From(i + 1)
                        ELSE From(i + 1)
    IN From(1)

\* MacOSVideoDecoder::new(path): Ok(decoder) as Some, Err as None.  reading:
\* the asset reader has been started and not cancelled; cursor: the number of
\* samples its output has handed out.
MacOSVideoDecoder_new(media) ==
    IF media.video
    THEN Some([backend |-> "macos",
               samples |-> VideoSamples(media.packets),
               cursor |-> 0,
               reading |-> TRUE])
    ELSE None

\* seek_to_time(time): the reader is cancelled, and replaced by one that starts
\* at time when ok (AVAssetReader could be created).
macos_seek_to_time(self, time, ok) ==
    IF ok
    THEN LET skipped == {i \in 1..Len(self.samples) : self.samples[i].timestamp < time}
         IN [self |-> [self EXCEPT !.cursor = Cardinality(skipped), !.reading = TRUE],
             ret |-> "Ok"]
    ELSE [self |-> [self EXCEPT !.reading = FALSE], ret |-> "Err"]

\* The native calls of read_frame, in program order, on each of its paths.
\* "copyNextSampleBuffer" hands out a sample buffer the caller owns,
\* "copyNextSampleBuffer:nil" none.
NoSampleCalls ==
    <<"NSAutoreleasePool::new", "copyNextSampleBuffer:nil", "drain">>
NoImageCalls ==
    <<"NSAutoreleasePool::new", "copyNextSampleBuffer", "CMSampleBufferGetImageBuffer",
      "CFRelease", "drain">>
FrameCalls ==
    <<"NSAutoreleasePool::new", "copyNextSampleBuffer", "CMSampleBufferGetImageBuffer",
      "CVPixelBufferLockBaseAddress",
      "CVPixelBufferGetWidth", "CVPixelBufferGetHeight", "CVPixelBufferGetBytesPerRow",
      "CVPixelBufferGetBaseAddress", "CMSampleBufferGetPresentationTimeStamp",
      "copy_nonoverlapping",
      "CVPixelBufferUnlockBaseAddress", "CFRelease", "drain">>

\* Variant of macos_read_frame whose early return for a sample without an
\* image buffer does not release the sample.
macos_read_frame_leaks_sample(self) ==
    IF ~self.reading \/ self.cursor >= Len(self.samples)
    THEN [self |-> self, ret |-> None, calls |-> NoSampleCalls]
    ELSE LET sample == self.samples[self.cursor + 1]
             taken == [self EXCEPT !.cursor = self.cursor + 1]
         IN IF sample.image
            THEN [self |-> taken, ret |-> Some(VideoFrame(sample.timestamp)),
                  calls |-> FrameCalls]
            ELSE [self |-> taken, ret |-> None,
                  calls |-> <<"NSAutoreleasePool::new", "copyNextSampleBuffer",
                              "CMSampleBufferGetImageBuffer", "drain">>]

\* read_frame(): None when copyNextSampleBuffer gives nil or the sample has no
\* image buffer, else the frame copied from the sample.  calls: the native
\* calls it made.
macos_read_frame(self) ==
    IF ~self.reading \/ self.cursor >= Len(self.samples)
    THEN [self |-> self, ret |-> None, calls |-> NoSampleCalls]
    ELSE LET sample == self.samples[self.cursor + 1]
             taken == [self EXCEPT !.cursor = self.cursor + 1]
         IN IF sample.image
            THEN [self |-> taken, ret |-> Some(VideoFrame(sample.timestamp)),
                  calls |-> FrameCalls]
            ELSE [self |-> taken, ret |-> None, calls |-> NoImageCalls]

\* ------------------------------------------------- the decoder's callers
\* One action per public method of the open session; the application state
\* stays as constructed.
FFmpegOpen ==
    /\ decoder = None
    /\ \E media \in Media, device \in BOOLEAN :
          /\ decoder' = FFmpegDecoder_new(media, device)
          /\ returned' = Some(IF media.video THEN "Ok" ELSE "Err")
    /\ call' = Called("FFmpegDecoder::new", decoder, decoder')
    /\ UNCHANGED <<appVars, frameVars>>

FFmpegGetVideoInfo ==
    /\ IsSome(decoder) /\ Unwrap(decoder).backend = "ffmpeg"
    /\ returned' = Some(get_video_info(Unwrap(decoder)))
    /\ call' = Called("get_video_info", decoder, decoder)
    /\ UNCHANGED <<appVars, frameVars, decoder>>

FFmpegSeek ==
    /\ IsSome(decoder) /\ Unwrap(decoder).backend = "ffmpeg"
    /\ \E time \in SeekTimes, ok \in BOOLEAN :
          \E r \in {seek_to_time(Unwrap(decoder), time, ok)} :
             /\ decoder' = Some(r.self)
             /\ returned' = Some(r.ret)
    /\ call' = Called("seek_to_time", decoder, decoder')
    /\ UNCHANGED <<appVars, frameVars>>

FFmpegReadFrame ==
    /\ IsSome(decoder) /\ Unwrap(decoder).backend = "ffmpeg"
    /\ \E r \in {read_frame(Unwrap(decoder))} :
          /\ decoder' = Some(r.self)
          /\ returned' = Some(r.ret)
    /\ call' = Called("read_frame", decoder, decoder')
    /\ UNCHANGED <<appVars, frameVars>>

FFmpegGetCurrentFrame ==
    /\ IsSome(decoder) /\ Unwrap(decoder).backend = "ffmpeg"
    /\ returned' = Some(get_current_frame(Unwrap(decoder)))
    /\ call' = Called("get_current_frame", decoder, decoder)
    /\ UNCHANGED <<appVars, frameVars, decoder>>

PlayAudio ==
    /\ IsSome(decoder) /\ Unwrap(decoder).backend = "ffmpeg"
    /\ decoder' = Some(play_audio(Unwrap(decoder)))
    /\ returned' = None
    /\ call' = Called("play_audio", decoder, decoder')
    /\ UNCHANGED <<appVars, frameVars>>

PauseAudio ==
    /\ IsSome(decoder) /\ Unwrap(decoder).backend = "ffmpeg"
    /\ decoder' = Some(pause_audio(Unwrap(decoder)))
    /\ returned' = None
    /\ call' = Called("pause_audio", decoder, decoder')
    /\ UNCHANGED <<appVars, frameVars>>

StopAudio ==
    /\ IsSome(decoder) /\ Unwrap(decoder).backend = "ffmpeg"
    /\ decoder' = Some(stop_audio(Unwrap(decoder)))
    /\ returned' = None
    /\ call' = Called("stop_audio", decoder, decoder')
    /\ UNCHANGED <<appVars, frameVars>>

IsAudioPlaying ==
    /\ IsSome(decoder) /\ Unwrap(decoder).backend = "ffmpeg"
    /\ returned' = Some(is_audio_playing(Unwrap(decoder)))
    /\ call' = Called("is_audio_playing", decoder, decoder)
    /\ UNCHANGED <<appVars, frameVars, decoder>>

MacOSOpen ==
    /\ decoder = None
    /\ \E media \in Media :
          /\ decoder' = MacOSVideoDecoder_new(media)
          /\ returned' = Some(IF media.video THEN "Ok" ELSE "Err")
    /\ call' = Called("MacOSVideoDecoder::new", decoder, decoder')
    /\ UNCHANGED <<appVars, frameVars>>

MacOSSeek ==
    /\ IsSome(decoder) /\ Unwrap(decoder).backend = "macos"
    /\ \E time \in SeekTimes, ok \in BOOLEAN :
          \E r \in {macos_seek_to_time(Unwrap(decoder), time, ok)} :
             /\ decoder' = Some(r.self)
             /\ returned' = Some(r.ret)
    /\ call' = Called("seek_to_time", decoder, decoder')
    /\ UNCHANGED <<appVars, frameVars>>

MacOSReadFrame ==
    /\ IsSome(decoder) /\ Unwrap(decoder).backend = "macos"
    /\ \E r \in {macos_read_frame(Unwrap(decoder))} :
          /\ decoder' = Some(r.self)
          /\ returned' = Some(r.ret)
    /\ call' = Called("read_frame", decoder, decoder')
    /\ UNCHANGED <<appVars, frameVars>>

DecoderNext ==
    \/ FFmpegOpen
    \/ FFmpegGetVideoInfo
    \/ FFmpegSeek
    \/ FFmpegReadFrame
    \/ FFmpegGetCurrentFrame
    \/ PlayAudio
    \/ PauseAudio
    \/ StopAudio
    \/ IsAudioPlaying
    \/ MacOSOpen
    \/ MacOSSeek
    \/ MacOSReadFrame

DecoderSpec == Init /\ [][DecoderNext]_vars


\* ==================================================== the pixel conversion
\* The frames given to convert_frame_to_rgba: frame.data, the only field the
\* function reads, is any byte string of up to MaxLen bytes.
Bytes == 0..MaxByte
ByteSeqs == UNION {[1..n -> Bytes] : n \in 0..MaxLen}

\* The loop of convert_frame_to_rgba: for every chunk of chunks_exact(4), in
\* order, push chunk[2], chunk[1], chunk[0], chunk[3].
RECURSIVE Rgba(_)
Rgba(data) ==
    IF Len(data) < 4 THEN <<>>
    ELSE <<data[3], data[2], data[1], data[4]>> \o Rgba(SubSeq(data, 5, Len(data)))

\* Variant of convert_frame_to_rgba that copies each complete group as it is.
convert_frame_to_rgba_unswapped(f) ==
    [i \in 1..(4 * (Len(f.data) \div 4)) |-> f.data[i]]

convert_frame_to_rgba(f) == Rgba(f.data)

ConvertInit ==
    /\ loaded_video = None
    /\ clips = <<>>
    /\ selected_clip = None
    /\ playhead_position = 0
    /\ next_clip_id = 0
    /\ is_playing = FALSE
    /\ last_frame_age = 0
    /\ call = [name |-> "new", acted |-> FALSE]
    /\ decoder = None
    /\ returned = None
    /\ frame \in {Some([data |-> data]) : data \in ByteSeqs}
    /\ rgba_data = None

\* convert_frame_to_rgba(&frame)
Convert ==
    /\ rgba_data' = Some(convert_frame_to_rgba(Unwrap(frame)))
    /\ call' = Called("convert_frame_to_rgba", rgba_data, rgba_data')
    /\ UNCHANGED <<appVars, decoderVars, frame>>

\* convert_frame_to_rgba applied to a frame that holds its own output
ConvertAgain ==
    /\ IsSome(rgba_data)
    /\ frame' = Some([data |-> Unwrap(rgba_data)])
    /\ rgba_data' = Some(convert_frame_to_rgba(Unwrap(frame')))
    /\ call' = Called("convert_frame_to_rgba again", frame, frame')
    /\ UNCHANGED <<appVars, decoderVars>>

ConvertNext ==
    \/ Convert
    \/ ConvertAgain

ConvertSpec == ConvertInit /\ [][ConvertNext]_vars


\* ============================================================== properties
Times == 0..MaxTimePos          \* the times a caller may pass
Ids == 0..MaxClipId             \* the clip ids a caller may pass
ClipIds == {clips[i].id : i \in 1..Len(clips)}

\* The span of a clip on the global timeline, [position, position + (end - start)).
SpanEnd(c) == c.position + (c.end_time - c.start_time)
Covers(c, g) == c.position <= g /\ g < SpanEnd(c)
\* The same span with its end point included.
OnSpan(c, g) == c.position <= g /\ g <= SpanEnd(c)

Inside(c, t) == c.start_time < t /\ t < c.end_time

\* cs without its i-th element
Without(cs, i) == [j \in 1..(Len(cs) - 1) |-> IF j < i THEN cs[j] ELSE cs[j + 1]]

\* C1: for every clip c of the timeline and every t with c.start < t < c.end,
\* split(c.id, t) sets c.end to t and inserts exactly one new clip directly
\* after c, with start t, c's previous end, c's source and position
\* c.position + (t - c.start); c's other fields and all other clips are unchanged.
C1_SplitShrinksAndInserts ==
    \A i \in 1..Len(clips), t \in Times :
        LET c == clips[i] IN
        Inside(c, t) =>
            LET new == split_clip(App, c.id, t).clips IN
            /\ Len(new) = Len(clips) + 1
            /\ new[i] = [c EXCEPT !.end_time = t]
            /\ new[i + 1].start_time = t
            /\ new[i + 1].end_time = c.end_time
            /\ new[i + 1].source_video = c.source_video
            /\ new[i + 1].position = c.position + (t - c.start_time)
            /\ new[i + 1].id \notin ClipIds
            /\ \A j \in 1..(i - 1) : new[j] = clips[j]
            /\ \A j \in (i + 1)..Len(clips) : new[j + 1] = clips[j]

\* A split has just cut a clip of a timeline that holds other clips too.
C1_Witness ==
    /\ call.name \in {"split_button", "shift_click"}
    /\ call.acted
    /\ Len(clips) >= 3
    /\ \E i \in 1..(Len(clips) - 1) :
          /\ clips[i + 1].id = next_clip_id - 1
          /\ clips[i + 1].start_time = clips[i].end_time
          /\ clips[i + 1].position = SpanEnd(clips[i])
          /\ clips[i].position > 0

\* C2: split(clip_id, t) changes nothing (clips, next id, selection) when t is
\* not strictly inside the clip's (start, end) or clip_id names no clip.
C2_SplitOutsideIsNoOp ==
    \A id \in Ids, t \in Times :
        (\A i \in 1..Len(clips) : clips[i].id = id => ~Inside(clips[i], t))
            => split_clip(App, id, t) = App

\* The split button was pressed with the playhead not inside the selected
\* clip's source range, and nothing changed.
C2_Witness ==
    /\ call.name = "split_button"
    /\ ~call.acted
    /\ IsSome(selected_clip)
    /\ \E i \in 1..Len(clips) :
          /\ clips[i].id = Unwrap(selected_clip)
          /\ clips[i].start_time < clips[i].end_time
          /\ playhead_position >= clips[i].end_time

\* C3: after split(c.id, t) with c.start < t < c.end two clips stand where c
\* stood, with source ranges [c.start, t) and [t, c.end), and resolving the
\* split point c.position + (t - c.start) returns the second clip.
C3_SplitPointResolvesToSecond ==
    \A i \in 1..Len(clips), t \in Times :
        LET c == clips[i] IN
        Inside(c, t) =>
            LET new == split_clip(App, c.id, t).clips
                hit == hit_test(new, c.position + (t - c.start_time))
            IN /\ Len(new) = Len(clips) + 1
               /\ new[i].start_time = c.start_time /\ new[i].end_time = t
               /\ new[i + 1].start_time = t /\ new[i + 1].end_time = c.end_time
               /\ IsSome(hit)
               /\ Unwrap(hit).id = new[i + 1].id

\* C4 as claimed: when several clips cover a global time, resolving it
\* selects the covering clip with the smallest id.
C4_SmallestIdWins ==
    \A g \in Times :
        LET cover == {i \in 1..Len(clips) : Covers(clips[i], g)}
            hit == hit_test(clips, g)
        IN Cardinality(cover) >= 2 =>
              /\ IsSome(hit)
              /\ \E i \in cover : clips[i] = Unwrap(hit)
              /\ \A i \in cover : Unwrap(hit).id <= clips[i].id

\* C4 as amended: resolving a global time selects the first clip, in list
\* order, whose span (end point included) holds the time, and no clip when
\* there is none.
C4_FirstInListWins ==
    \A g \in Times :
        LET hit == hit_test(clips, g) IN
        IF \E i \in 1..Len(clips) : OnSpan(clips[i], g)
        THEN /\ IsSome(hit)
             /\ \E i \in 1..Len(clips) :
                   /\ clips[i] = Unwrap(hit)
                   /\ OnSpan(clips[i], g)
                   /\ \A j \in 1..(i - 1) : ~OnSpan(clips[j], g)
        ELSE hit = None

\* A click has selected a clip at a time that a clip with a smaller id, later
\* in the list, covers too.
C4_Witness ==
    /\ call.name = "click"
    /\ call.acted
    /\ IsSome(selected_clip)
    /\ \E g \in Times, i \in 1..Len(clips), j \in 1..Len(clips) :
          /\ i < j
          /\ Covers(clips[i], g) /\ Covers(clips[j], g)
          /\ clips[j].id < clips[i].id
          /\ hit_test(clips, g) = Some(clips[i])
          /\ selected_clip = Some(clips[i].id)

\* C5: every clip has start < end <= source.duration and position >= 0.
C5_ClipRanges ==
    \A i \in 1..Len(clips) :
        /\ clips[i].start_time < clips[i].end_time
        /\ clips[i].end_time <= clips[i].source_video.duration
        /\ clips[i].position >= 0

\* C6: the clip list is ordered by non-decreasing position.
C6_ClipsOrderedByPosition ==
    \A i \in 1..(Len(clips) - 1) : clips[i].position <= clips[i + 1].position

\* The end of the last clip on the timeline.
LastClipEnd == CHOOSE e \in {SpanEnd(clips[i]) : i \in 1..Len(clips)} :
                   \A i \in 1..Len(clips) : SpanEnd(clips[i]) <= e

\* C7: while playing, an advance that carries the playhead past the end of
\* the last clip stops playback and resets the playhead to 0.
C7_StopsPastLastClip ==
    (is_playing /\ clips # <<>>) =>
        \A dt \in Deltas :
            LET moved == playhead_position + last_frame_age + dt
                s == advance(App, dt)
            IN moved > LastClipEnd => (~s.is_playing /\ s.playhead_position = 0)

\* C8: the commands move the scheduler Stopped/Paused -play-> Playing,
\* Playing -pause-> Paused and any state -stop-> Stopped; stop leaves it not
\* playing with the playhead at 0; play and pause keep the playhead; no other
\* handler touches the playing flag or the playhead.  (Playing is is_playing;
\* Paused and Stopped are both ~is_playing: pause keeps the playhead, stop
\* rewinds it.)
C8_SchedulerCommands ==
    /\ LET p == play_pause_button(App) IN
       /\ p.is_playing = ~is_playing
       /\ p.playhead_position = playhead_position
    /\ LET st == stop_button(App) IN
       /\ ~st.is_playing
       /\ st.playhead_position = 0
    /\ call.name = "play" => is_playing
    /\ call.name = "pause" => ~is_playing
    /\ call.name = "stop" => (~is_playing /\ playhead_position = 0)
    /\ \A other \in {load_video(App, path) : path \in Paths}
                    \cup {dropped_files(App, files) : files \in Drops}
                    \cup {split_button(App), delete_selected_clip(App)}
                    \cup {timeline_click(App, g, shift) : g \in Times, shift \in BOOLEAN} :
          /\ other.is_playing = is_playing
          /\ other.playhead_position = playhead_position

\* Playback was paused with the playhead away from 0.
C8_Witness ==
    /\ call.name = "pause"
    /\ ~is_playing
    /\ playhead_position > 0

\* C9: delete removes exactly the selected clip; every other clip keeps its
\* fields and its place relative to the others, and nothing else of the
\* timeline changes.
C9_DeleteRemovesOnlyThatClip ==
    IsSome(selected_clip) =>
        LET new == delete_selected_clip(App) IN
        /\ \E i \in 1..Len(clips) :
              /\ clips[i].id = Unwrap(selected_clip)
              /\ new.clips = Without(clips, i)
        /\ new = [App EXCEPT !.clips = new.clips, !.selected_clip = None]

\* A delete has just removed a clip and left a gap at the head of the
\* timeline, before a clip that stays where it was.
C9_Witness ==
    /\ call.name = "delete_selected_clip"
    /\ call.acted
    /\ clips # <<>>
    /\ \A i \in 1..Len(clips) : clips[i].position > 0

\* C10: after delete, a global time that only the deleted clip covered
\* resolves to no clip, and a time that one remaining clip covers resolves to
\* that clip.
C10_DeleteLeavesGap ==
    IsSome(selected_clip) =>
        LET new == delete_selected_clip(App).clips
            others == {i \in 1..Len(clips) : clips[i].id # Unwrap(selected_clip)}
            gone == {i \in 1..Len(clips) : clips[i].id = Unwrap(selected_clip)}
        IN \A g \in Times :
              LET cover == {i \in others : Covers(clips[i], g)} IN
              /\ ((\E i \in gone : Covers(clips[i], g)) /\ cover = {})
                    => hit_test(new, g) = None
              /\ \A i \in cover :
                    cover = {i} =>
                        /\ hit_test(new, g) = Some(clips[i])
                        /\ source_time(clips[i], g)
                             = clips[i].start_time + (g - clips[i].position)

\* C11: a global time that lies outside [position, position + (end - start))
\* of every clip, the exclusive end of a clip included, resolves to no clip.
C11_OutsideResolvesToNone ==
    \A g \in Times :
        (\A i \in 1..Len(clips) : ~Covers(clips[i], g)) => hit_test(clips, g) = None

FirstMov(files) ==
    LET IsMov(f) == ToLowercase(Extension(f)) = "mov"
        movs == SelectSeq(files, IsMov)
    IN IF movs = <<>> THEN None ELSE Some(movs[1])

\* C18: a load of a file that cannot be opened or probed leaves the clip list,
\* every clip's fields, the next id, the selection and the source loaded
\* before exactly as they were.
C18_FailedLoadChangesNothing ==
    /\ \A path \in Paths :
          parse_mov_file(path) = None => load_video(App, path) = App
    /\ \A files \in Drops :
          LET first == FirstMov(files) IN
          (first = None \/ parse_mov_file(Unwrap(first)) = None)
              => dropped_files(App, files) = App

\* A load has just failed on a timeline that holds clips, a selection and a
\* loaded source.
C18_Witness ==
    /\ call.name = "load_video"
    /\ ~call.acted
    /\ Len(clips) >= 2
    /\ IsSome(selected_clip)
    /\ IsSome(loaded_video)

\* C19: a successful load(media) adds exactly one clip, at the end of the
\* list, with start 0, end the source's duration, position 0 and an id no clip
\* has, referencing the source just loaded; the clips that existed before are
\* unchanged.
C19_LoadAddsOneClip ==
    \A path \in Paths :
        IsSome(parse_mov_file(path)) =>
            LET new == load_video(App, path)
                n == Len(clips)
                c == new.clips[n + 1]
            IN /\ Len(new.clips) = n + 1
               /\ SubSeq(new.clips, 1, n) = clips
               /\ c.start_time = 0
               /\ c.end_time = c.source_video.duration
               /\ c.position = 0
               /\ c.id \notin ClipIds
               /\ c.source_video = Unwrap(parse_mov_file(path))
               /\ new.loaded_video = Some(c.source_video)
               /\ new = [App EXCEPT !.clips = new.clips,
                                    !.loaded_video = new.loaded_video,
                                    !.next_clip_id = next_clip_id + 1]

\* A load has just added a clip to a timeline from which a clip had been
\* deleted: the new clip's id is larger than the number of clips.
C19_Witness ==
    /\ call.name \in {"load_video", "dropped_files"}
    /\ call.acted
    /\ Len(clips) >= 2
    /\ clips[Len(clips)].id = next_clip_id - 1
    /\ clips[Len(clips)].id >= Len(clips)
    /\ clips[Len(clips)].position = 0
    /\ loaded_video = Some(clips[Len(clips)].source_video)

\* ------------------------------------------------- the decoder's claims
\* The open session, by backend.
FFmpegOpened == IsSome(decoder) /\ Unwrap(decoder).backend = "ffmpeg"
MacOSOpened == IsSome(decoder) /\ Unwrap(decoder).backend = "macos"

\* The frames a sequential read can still decode.
FramesAhead(d) ==
    {j \in (d.cursor + 1)..Len(d.packets) : d.packets[j] = "V"}

\* C12: once the stream is exhausted read_next_frame returns None, in both
\* backends: after the last frame has been returned every further call gives
\* None, never a frame returned before.
C12_ExhaustedReadsNone ==
    /\ FFmpegOpened =>
          LET d == Unwrap(decoder) IN
          FramesAhead(d) = {} => read_frame(d).ret = None
    /\ MacOSOpened =>
          LET d == Unwrap(decoder) IN
          d.cursor >= Len(d.samples) => macos_read_frame(d).ret = None

\* C13: a successful seek(to) invalidates the buffered frame: after it
\* get_current reports no frame until a read succeeds, and a frame a later
\* read returns is one that read decoded itself.
C13_SeekInvalidatesBufferedFrame ==
    FFmpegOpened =>
        \A time \in SeekTimes :
            LET s == seek_to_time(Unwrap(decoder), time, TRUE).self
                r == read_frame(s)
            IN /\ get_current_frame(s) = None
               /\ IsSome(r.ret) =>
                     /\ r.self.cursor > s.cursor
                     /\ r.ret = Some(VideoFrame(r.self.cursor))

\* The sink of the session is producing sound.
Producing(d) ==
    /\ IsSome(d.audio_sink)
    /\ ~Unwrap(d.audio_sink).paused
    /\ Unwrap(d.audio_sink).queued > 0

\* The audio of the open session, if any, is reported as playing.
AudioIsPlaying == FFmpegOpened /\ is_audio_playing(Unwrap(decoder))

\* C15: every play transition of the scheduler issues one audio play and
\* every pause transition one audio pause on the active decoder, so after
\* any sequence of play, pause and stop the audio is playing exactly when
\* the scheduler is Playing.
C15_AudioFollowsScheduler == is_playing <=> AudioIsPlaying

\* C16 as claimed: when query_info reports has_audio = FALSE the audio
\* controls change nothing and audio_is_playing is FALSE; when it reports
\* has_audio = TRUE a sink was bound at open, and audio_is_playing is TRUE
\* after audio_play.
C16_NoOpsExactlyWithoutAudio ==
    FFmpegOpened =>
        LET d == Unwrap(decoder) IN
        IF get_video_info(d).has_audio
        THEN /\ IsSome(d.audio_sink)
             /\ is_audio_playing(play_audio(d))
        ELSE /\ play_audio(d) = d /\ pause_audio(d) = d /\ stop_audio(d) = d
             /\ ~is_audio_playing(d)

\* C16 as amended: the audio controls are no-ops exactly when no sink was
\* bound at open.  With has_audio = FALSE no sink is bound.  Without a sink
\* the controls change nothing and audio_is_playing is FALSE, whatever
\* has_audio reports; with a sink, audio_is_playing is TRUE after audio_play
\* and FALSE after audio_pause.
C16_NoOpsExactlyWithoutSink ==
    FFmpegOpened =>
        LET d == Unwrap(decoder) IN
        /\ ~get_video_info(d).has_audio => d.audio_sink = None
        /\ IF IsSome(d.audio_sink)
           THEN /\ is_audio_playing(play_audio(d))
                /\ ~is_audio_playing(pause_audio(d))
                /\ play_audio(pause_audio(d)) # pause_audio(d)
           ELSE /\ play_audio(d) = d /\ pause_audio(d) = d /\ stop_audio(d) = d
                /\ ~is_audio_playing(d)
                /\ ~is_audio_playing(play_audio(d))

\* audio_play has just been called on a source with an audio track for which
\* no sink was bound at open.
C16_Witness ==
    /\ FFmpegOpened
    /\ call.name = "play_audio"
    /\ ~call.acted
    /\ get_video_info(Unwrap(decoder)).has_audio
    /\ Unwrap(decoder).audio_sink = None

\* C17: audio_is_playing reports the sink's actual state: whenever the sink
\* is not producing sound (never started, stopped, emptied or stalled) it
\* returns FALSE, whatever the last command was.
C17_ReportsActualSinkState ==
    FFmpegOpened =>
        LET d == Unwrap(decoder) IN
        ~Producing(d) => ~is_audio_playing(d)

\* ----------------------------------------------- the conversion's claims
\* The k-th complete 4-byte group of data, k counted from 0.
Group(data, k) == SubSeq(data, 4 * k + 1, 4 * k + 4)
Swapped(g) == <<g[3], g[2], g[1], g[4]>>

\* C20 as claimed: convert_frame_to_rgba maps every complete 4-byte group
\* (b, g, r, a) to (r, g, b, a), preserves the byte count of an input whose
\* length is a multiple of 4, and applied twice returns the original bytes.
C20_ConversionIsInvolution ==
    IsSome(frame) =>
        LET f == Unwrap(frame)
            out == convert_frame_to_rgba(f)
        IN /\ \A k \in 0..((Len(f.data) \div 4) - 1) :
                 Group(out, k) = Swapped(Group(f.data, k))
           /\ Len(f.data) % 4 = 0 => Len(out) = Len(f.data)
           /\ convert_frame_to_rgba([data |-> out]) = f.data

\* C20 as amended: convert_frame_to_rgba maps every complete 4-byte group
\* (b, g, r, a) to (r, g, b, a) and drops a trailing incomplete group, so the
\* output has 4 * (length div 4) bytes (the length itself when it is a
\* multiple of 4), and applied twice it returns the original bytes without
\* the trailing incomplete group (the original when the length is a multiple
\* of 4).
C20_ConversionSwapsCompleteGroups ==
    IsSome(frame) =>
        LET f == Unwrap(frame)
            out == convert_frame_to_rgba(f)
            whole == 4 * (Len(f.data) \div 4)
        IN /\ Len(out) = whole
           /\ \A k \in 0..((Len(f.data) \div 4) - 1) :
                 Group(out, k) = Swapped(Group(f.data, k))
           /\ Len(f.data) % 4 = 0 => Len(out) = Len(f.data)
           /\ convert_frame_to_rgba([data |-> out]) = SubSeq(f.data, 1, whole)

\* A frame of one complete group, with b # r, and a trailing byte has just
\* been converted: the group came out swapped and the trailing byte is gone.
C20_Witness ==
    /\ call.name = "convert_frame_to_rgba"
    /\ IsSome(frame) /\ IsSome(rgba_data)
    /\ Len(Unwrap(frame).data) = 5
    /\ Unwrap(frame).data[1] # Unwrap(frame).data[3]
    /\ Unwrap(rgba_data) = Swapped(Group(Unwrap(frame).data, 0))

\* ------------------------------------------ the application's invariants
\* What each handler makes of the application, for every input it can get.
AfterLoad == {load_video(App, path) : path \in Paths}
               \cup {dropped_files(App, files) : files \in Drops}
AfterSplit == {split_button(App)}
                \cup {split_clip(App, id, t) : id \in Ids, t \in Times}
                \cup {timeline_click(App, g, TRUE) : g \in Times}
AfterClick == {timeline_click(App, g, FALSE) : g \in Times}
AfterDelete == {delete_selected_clip(App)}
AfterTick == {advance(App, dt) : dt \in Deltas}
AfterAny == AfterLoad \cup AfterSplit \cup AfterClick \cup AfterDelete \cup AfterTick
              \cup {play_pause_button(App), stop_button(App)}

IdsOf(cs) == {cs[i].id : i \in 1..Len(cs)}

\* C22: only time spent in Playing is added to the playhead: a tick while
\* Paused or Stopped leaves the playhead unchanged, and the first tick after
\* a play adds only the time elapsed since that play, never the time spent
\* paused or stopped.  (A tick that reaches the end of the source stops
\* playback and rewinds.)
C22_OnlyPlayingTimeCounts ==
    /\ is_playing => last_frame_age = 0
    /\ ~is_playing =>
          \A dt \in Deltas :
              /\ advance(App, dt).playhead_position = playhead_position
              /\ ~advance(App, dt).is_playing
              /\ LET first == advance(play_pause_button(App), dt)
                     at_end == /\ IsSome(loaded_video)
                               /\ playhead_position + dt >= Unwrap(loaded_video).duration
                 IN first.playhead_position
                        = IF at_end THEN 0 ELSE playhead_position + dt
    /\ is_playing =>
          \A dt \in Deltas :
              LET a == advance(App, dt)
                  at_end == /\ IsSome(loaded_video)
                            /\ playhead_position + dt >= Unwrap(loaded_video).duration
              IN a.playhead_position = IF at_end THEN 0 ELSE playhead_position + dt

\* A tick has passed while paused away from 0: time out of playback has
\* piled up since last_frame_time and the playhead has not moved.
C22_Witness ==
    /\ call.name = "advance"
    /\ call.acted
    /\ ~is_playing
    /\ last_frame_age > 0
    /\ playhead_position > 0

\* C23: all clips have pairwise distinct ids, every clip's id is smaller than
\* the next id to allocate, and no handler decreases the next id, so an id
\* freed by delete is never given to a clip created later by load or split.
C23_IdsUniqueAndFresh ==
    /\ \A i, j \in 1..Len(clips) : clips[i].id = clips[j].id => i = j
    /\ \A i \in 1..Len(clips) : clips[i].id < next_clip_id
    /\ \A new \in AfterAny :
          /\ new.next_clip_id >= next_clip_id
          /\ \A id \in IdsOf(new.clips) \ ClipIds : id >= next_clip_id

\* A load or split has just created a clip while an id freed by a delete is
\* absent from the list.
C23_Witness ==
    /\ call.name \in {"load_video", "dropped_files", "split_button", "shift_click"}
    /\ call.acted
    /\ next_clip_id - 1 \in ClipIds
    /\ \E id \in 0..(next_clip_id - 2) : id \notin ClipIds

\* C24: each clip's timeline position equals its source start time, after any
\* sequence of load, split and delete; so the source time of every covered
\* global time is the global time itself.
C24_PositionIsStart ==
    /\ \A i \in 1..Len(clips) : clips[i].position = clips[i].start_time
    /\ \A i \in 1..Len(clips), g \in Times :
          Covers(clips[i], g) => source_time(clips[i], g) = g

\* A split has just made a clip that starts after 0, on a timeline from
\* which a clip had been deleted.
C24_Witness ==
    /\ call.name \in {"split_button", "shift_click"}
    /\ call.acted
    /\ \E i \in 1..Len(clips) :
          /\ clips[i].id = next_clip_id - 1
          /\ clips[i].position > 0
          /\ clips[i].position = clips[i].start_time
    /\ \E id \in 0..(next_clip_id - 2) : id \notin ClipIds

\* C25: the selection is empty or the id of a clip in the clip list: a click
\* selects only an existing clip, delete removes the selected clip and clears
\* the selection, and split and load never remove the selected clip.
C25_SelectionIsAClip ==
    /\ IsSome(selected_clip) => Unwrap(selected_clip) \in ClipIds
    /\ \A new \in AfterClick :
          IsSome(new.selected_clip) => Unwrap(new.selected_clip) \in IdsOf(new.clips)
    /\ LET new == delete_selected_clip(App) IN
       IsSome(selected_clip) =>
          /\ new.selected_clip = None
          /\ Unwrap(selected_clip) \notin IdsOf(new.clips)
    /\ \A new \in AfterLoad \cup AfterSplit :
          /\ new.selected_clip = selected_clip
          /\ ClipIds \subseteq IdsOf(new.clips)

\* A split has just cut the selected clip, which is still selected and in
\* the list.
C25_Witness ==
    /\ call.name = "split_button"
    /\ call.acted
    /\ IsSome(selected_clip)
    /\ Unwrap(selected_clip) \in ClipIds
    /\ Len(clips) >= 2

\* ------------------------------------------- the native buffers' claims
\* The places of a call in a sequence of native calls.
Places(calls, name) == {i \in 1..Len(calls) : calls[i] = name}

\* The calls that read the pixel buffer or its memory.
PixelCalls ==
    {"CVPixelBufferGetWidth", "CVPixelBufferGetHeight", "CVPixelBufferGetBytesPerRow",
     "CVPixelBufferGetBaseAddress", "copy_nonoverlapping"}
\* The calls that use the sample buffer.
SampleCalls ==
    {"CMSampleBufferGetImageBuffer", "CMSampleBufferGetPresentationTimeStamp"}

====
